---- MODULE Spec2Model ----
(***************************************************************************)
(* A model of the breast-cancer prediction service:                        *)
(*   - the Input Normalizer    (src/app/pre_process.py),                   *)
(*   - the Model Executor and the request boundary                         *)
(*                             (src/app/inference.py, src/app/main.py),    *)
(*   - the Latency Recorder    (src/app/logger.py),                        *)
(*   - the Report Aggregator   (src/reports/make_report.py).               *)
(*                                                                         *)
(* Numbers.  A float of the matrix is held as a count of halves (F(h) is   *)
(* the float h/2), so that every integer input and every median of such    *)
(* inputs is exact.  A number of a log line is held as a count of          *)
(* thousandths (latency_ms is rounded to three decimals by the code).      *)
(***************************************************************************)
EXTENDS Integers, Sequences, FiniteSets, TLC

\* ------------------------------------------------------------------ bounds
MaxRows == 2
MaxRequests == 3
MaxInflight == 2
MaxLogLines == 3

\* ------------------------------------------------------- program constants
N_FEATURES == 23
TrainedFeatures == 30
maxBytes == 1000000
backupCount == 3

VARIABLES
    norm,        \* the last call of the normalizer: its input and its outcome
    artifact,    \* what is stored at MODEL_PATH
    model,       \* inference._model, the cached instance ("None" when unset)
    nLoads,      \* joblib.load calls that returned an instance
    loadFailed,  \* whether a joblib.load call has raised
    slots,       \* requests suspended at their await (body not yet read)
    nReq,        \* requests answered so far
    resp,        \* the last response and what the request went through
    logExists,   \* whether logs/predictions.log exists
    active,      \* the lines of logs/predictions.log
    backups,     \* the lines of predictions.log.1, .2, .. (newest first)
    events,      \* the events recorded by this process, in order
    rotations,   \* rollovers done by this process
    report,      \* the outcome of the last aggregator run
    summaryFile  \* reports/artifacts/summary.csv ("absent" or a summary)

vars == <<norm, artifact, model, nLoads, loadFailed, slots, nReq, resp,
          logExists, active, backups, events, rotations, report, summaryFile>>

normVars == <<norm>>
serviceVars == <<artifact, model, nLoads, loadFailed, slots, nReq, resp>>
logVars == <<logExists, active, backups, events, rotations>>
reportVars == <<report, summaryFile>>

\* =========================================================================
\* Input Normalizer (src/app/pre_process.py)
\* =========================================================================

\* A raw cell: a number, None (JSON null, an empty CSV field) or text that is
\* no number ("abc").
NumCell(v) == [k |-> "num", v |-> v]
NoneCell == [k |-> "none", v |-> 0]
TextCell == [k |-> "text", v |-> 0]

\* A float: h halves, or NaN.
F(h) == [nan |-> FALSE, h |-> h]
NaN == [nan |-> TRUE, h |-> 0]

\* An outcome of the normalizer: a matrix, or the exception raised.
Ok(X, nrows, ncols) ==
    [ok |-> TRUE, exc |-> "none", msg |-> "none", X |-> X, nrows |-> nrows, ncols |-> ncols]
Raise(exc, msg) ==
    [ok |-> FALSE, exc |-> exc, msg |-> msg, X |-> <<>>, nrows |-> 0, ncols |-> 0]

\* The k-th smallest (k from 1) of the non-empty sequence of integers s.
KthSmallest(s, k) ==
    CHOOSE x \in {s[i] : i \in DOMAIN s} :
        /\ Cardinality({i \in DOMAIN s : s[i] < x}) < k
        /\ Cardinality({i \in DOMAIN s : s[i] <= x}) >= k

\* Series.median(): NaN are skipped; the mean of the two middle values of an
\* even count; NaN when nothing is left.
Median(col) ==
    LET idx == {i \in DOMAIN col : ~col[i].nan}
        m == Cardinality(idx)
        vals == [j \in 1..m |->
                    LET i == CHOOSE i \in idx : Cardinality({q \in idx : q < i}) = j - 1
                    IN col[i].h]
    IN IF m = 0 THEN NaN
       ELSE IF m % 2 = 1 THEN F(KthSmallest(vals, (m + 1) \div 2))
       ELSE F((KthSmallest(vals, m \div 2) + KthSmallest(vals, m \div 2 + 1)) \div 2)

\* pd.to_numeric(errors="coerce") on one cell.
to_numeric(c) == IF c.k = "num" THEN F(2 * c.v) ELSE NaN

\* clean_array on an array [ndim, shape, cells]: cells holds the rows (a rank-1
\* array holds its one row).
clean_array(arr) ==
    LET nrows == IF arr.ndim = 1 THEN 1 ELSE arr.shape[1]
        ncols == IF arr.ndim = 1 THEN arr.shape[1] ELSE arr.shape[2]
    IN IF ncols # N_FEATURES
       THEN Raise("ValueError", "shape")
       ELSE LET df == [r \in 1..nrows |-> [c \in 1..ncols |-> to_numeric(arr.cells[r][c])]]
                med == [c \in 1..ncols |-> Median([r \in 1..nrows |-> df[r][c]])]
            IN Ok([r \in 1..nrows |-> [c \in 1..ncols |->
                      IF df[r][c].nan THEN med[c] ELSE df[r][c]]], nrows, ncols)

\* A payload handed to from_json_payload: not a list, a list of scalars (one
\* row, possibly empty) or a list of lists.
NonList == [t |-> "nonlist", rows |-> <<>>]
Flat(cells) == [t |-> "flat", rows |-> <<cells>>]
Nested(rows) == [t |-> "nested", rows |-> rows]

PayloadLen(p) ==
    IF p.t = "flat" THEN Len(p.rows[1]) ELSE Len(p.rows)

HasText(rows) ==
    \E r \in DOMAIN rows : \E c \in DOMAIN rows[r] : rows[r][c].k = "text"

\* np.array(payload, dtype=float): None becomes NaN; text that is no number and
\* rows of unequal lengths raise ValueError.
NpArrayFloat(p) ==
    IF p.t = "nested" /\ \E r \in DOMAIN p.rows : Len(p.rows[r]) # Len(p.rows[1])
    THEN [ok |-> FALSE, msg |-> "inhomogeneous", ndim |-> 0, shape |-> <<>>, cells |-> <<>>]
    ELSE IF HasText(p.rows)
    THEN [ok |-> FALSE, msg |-> "convert", ndim |-> 0, shape |-> <<>>, cells |-> <<>>]
    ELSE IF p.t = "flat"
    THEN [ok |-> TRUE, msg |-> "none", ndim |-> 1, shape |-> <<Len(p.rows[1])>>, cells |-> p.rows]
    ELSE [ok |-> TRUE, msg |-> "none", ndim |-> 2,
          shape |-> <<Len(p.rows), Len(p.rows[1])>>, cells |-> p.rows]

from_json_payload(p) ==
    IF p.t = "nonlist" \/ PayloadLen(p) = 0
    THEN Raise("ValueError", "empty")
    ELSE LET arr == NpArrayFloat(p)
         IN IF ~arr.ok THEN Raise("ValueError", arr.msg) ELSE clean_array(arr)

\* A CSV file: its lines, each the fields of the line (a line of no field is a
\* blank line).  pd.read_csv with its defaults (the C parser):
\*   - blank lines are skipped; a file with no other line raises
\*     EmptyDataError, a ValueError;
\*   - the first line names the columns;
\*   - the first data line may hold any number of fields: every line is filled
\*     at its end with NaN up to the larger of that number and the number of
\*     names, and a later line of more fields raises ParserError, a ValueError;
\*   - the fields a line holds beyond the names are taken from its front as the
\*     row labels (the implicit index): df.values holds the fields after them.
Csv(lines) == [t |-> "csv", rows |-> lines]

NonBlank(line) == line # <<>>

CsvFail(msg) == [ok |-> FALSE, msg |-> msg, ndim |-> 0, shape |-> <<>>, cells |-> <<>>]

read_csv(f) ==
    LET lines == SelectSeq(f.rows, NonBlank)
    IN IF lines = <<>>
       THEN CsvFail("emptydata")
       ELSE LET ncols == Len(lines[1])
                nrows == Len(lines) - 1
                nfields == IF nrows >= 1 /\ Len(lines[2]) > ncols THEN Len(lines[2]) ELSE ncols
                lead == nfields - ncols
            IN IF \E r \in 2..nrows : Len(lines[r + 1]) > nfields
               THEN CsvFail("tokenize")
               ELSE [ok |-> TRUE, msg |-> "none", ndim |-> 2, shape |-> <<nrows, ncols>>,
                     cells |-> [r \in 1..nrows |-> [c \in 1..ncols |->
                                  IF lead + c <= Len(lines[r + 1])
                                  THEN lines[r + 1][lead + c] ELSE NoneCell]]]

from_csv_bytes(f) ==
    LET df == read_csv(f)
    IN IF ~df.ok THEN Raise("ValueError", df.msg) ELSE clean_array(df)

\* ------------------------------------------------ the inputs of the model
Widths == {N_FEATURES - 1, N_FEATURES, N_FEATURES + 1}
BaseRow(w, r) == [c \in 1..w |-> NumCell(10 * r + c)]
BaseTable(n, w) == [r \in 1..n |-> BaseRow(w, r)]
Header(w) == [c \in 1..w |-> TextCell]

\* Tables of n rows and w columns: all numbers, one cell replaced by None or by
\* text, or the whole first column None.
Tables(n, w) ==
    {BaseTable(n, w)}
    \cup {[BaseTable(n, w) EXCEPT ![i][j] = cell] :
            i \in 1..n, j \in {1, w}, cell \in {NoneCell, TextCell}}
    \cup {[r \in 1..n |-> [BaseRow(w, r) EXCEPT ![1] = NoneCell]]}

JsonPayloads ==
    {NonList, Flat(<<>>), Nested(<<<<>>>>),
     Nested(<<BaseRow(N_FEATURES, 1), BaseRow(N_FEATURES - 1, 2)>>)}
    \cup {Flat(t[1]) : t \in UNION {Tables(1, w) : w \in Widths}}
    \cup {Nested(t) : t \in UNION {Tables(n, w) : n \in 1..MaxRows, w \in Widths}}

CsvFiles ==
    {Csv(<<>>)}
    \cup {Csv(<<Header(w)>>) : w \in Widths}
    \cup UNION {{Csv(<<Header(w)>> \o t) : t \in UNION {Tables(n, w) : n \in 1..MaxRows}} :
                  w \in Widths}
    \cup {Csv(<<Header(N_FEATURES), BaseRow(N_FEATURES - 1, 1)>>),
          Csv(<<Header(N_FEATURES), <<>>>>),
          Csv(<<Header(N_FEATURES), <<>>, BaseRow(N_FEATURES, 1)>>),
          Csv(<<Header(N_FEATURES), BaseRow(N_FEATURES + 1, 1)>>),
          Csv(<<Header(N_FEATURES), BaseRow(N_FEATURES + 2, 1)>>),
          Csv(<<Header(N_FEATURES - 1), BaseRow(N_FEATURES, 1)>>),
          Csv(<<Header(N_FEATURES), BaseRow(N_FEATURES + 1, 1), BaseRow(N_FEATURES + 1, 2)>>),
          Csv(<<Header(N_FEATURES), BaseRow(N_FEATURES + 1, 1), BaseRow(N_FEATURES, 2)>>),
          Csv(<<Header(N_FEATURES), BaseRow(N_FEATURES + 1, 1), BaseRow(N_FEATURES + 2, 2)>>),
          Csv(<<Header(N_FEATURES), BaseRow(N_FEATURES, 1), BaseRow(N_FEATURES + 1, 2)>>)}

NoCall == [called |-> FALSE, mode |-> "none", input |-> NonList, out |-> Raise("none", "none")]

\* One call of from_json_payload.
NormalizeJson(p) ==
    /\ norm' = [called |-> TRUE, mode |-> "json", input |-> p, out |-> from_json_payload(p)]
    /\ UNCHANGED <<serviceVars, logVars, reportVars>>

\* One call of from_csv_bytes.
NormalizeCsv(f) ==
    /\ norm' = [called |-> TRUE, mode |-> "csv", input |-> f, out |-> from_csv_bytes(f)]
    /\ UNCHANGED <<serviceVars, logVars, reportVars>>

\* =========================================================================
\* Latency Recorder (src/app/logger.py, the calls of src/app/inference.py)
\* =========================================================================

\* A log line is a sequence of tokens.
Tok(k, s, v) == [k |-> k, s |-> s, v |-> v]
LBrace == Tok("p", "{", 0)
RBrace == Tok("p", "}", 0)
Colon == Tok("p", ":", 0)
Comma == Tok("p", ",", 0)
SQ(s) == Tok("sq", s, 0)        \* 'text', as repr() quotes a str
DQ(s) == Tok("dq", s, 0)        \* "text", as JSON quotes a string
IntTok(n) == Tok("int", "", n)      \* an integer literal
FloatTok(t) == Tok("float", "", t)  \* a decimal literal of t thousandths
Word(s) == Tok("word", s, 0)    \* bare text
AscTime == Tok("asctime", "", 0)    \* %(asctime)s and the space after it
Marker == Tok("marker", "INFO predict: ", 0)  \* %(levelname)s %(name)s: 
Filler(b) == Tok("filler", "", b)   \* b characters of text that is no JSON

RECURSIVE Digits(_)
Digits(n) == IF n < 10 THEN 1 ELSE 1 + Digits(n \div 10)

\* len(repr(t / 1000)) of a float rounded to three decimals.
FloatLen(t) ==
    Digits(t \div 1000) + 1
    + (IF t % 100 = 0 THEN 1 ELSE IF t % 10 = 0 THEN 2 ELSE 3)

StrLen(s) == IF s = "n" THEN 1 ELSE IF s = "latency_ms" THEN 10 ELSE 3

\* The characters a token takes in the line (": " and ", " with their space).
TokLen(tok) ==
    CASE tok.k = "p" -> (IF tok.s \in {":", ","} THEN 2 ELSE 1)
      [] tok.k \in {"sq", "dq"} -> StrLen(tok.s) + 2
      [] tok.k = "int" -> Digits(tok.v)
      [] tok.k = "float" -> FloatLen(tok.v)
      [] tok.k = "asctime" -> 24
      [] tok.k = "marker" -> 14
      [] tok.k = "filler" -> tok.v
      [] OTHER -> 4

RECURSIVE SumLen(_)
SumLen(toks) == IF toks = <<>> THEN 0 ELSE TokLen(Head(toks)) + SumLen(Tail(toks))

\* The characters of a line in the file, with its newline.
LineBytes(line) == SumLen(line) + 1

RECURSIVE FileBytes(_)
FileBytes(lines) == IF lines = <<>> THEN 0 ELSE LineBytes(Head(lines)) + FileBytes(Tail(lines))

\* str() of the dict {"n": n, "latency_ms": lat} that inference.py logs.
PyRepr(ev) ==
    <<LBrace, SQ("n"), Colon, IntTok(ev.n), Comma,
      SQ("latency_ms"), Colon, FloatTok(ev.lat), RBrace>>

\* logging.Formatter("%(asctime)s %(levelname)s %(name)s: %(message)s")
Format(ev) == <<AscTime, Marker>> \o PyRepr(ev)

\* RotatingFileHandler.shouldRollover, with maxBytes of _mk_handler.
shouldRollover(lines, line) ==
    maxBytes > 0 /\ FileBytes(lines) + LineBytes(line) >= maxBytes

\* RotatingFileHandler.doRollover, with backupCount of _mk_handler: .i becomes
\* .(i+1), the active file becomes .1, and what was .backupCount is removed.
doRollover(act, bks) ==
    IF backupCount > 0
    THEN SubSeq(<<act>> \o bks, 1, IF Len(bks) + 1 > backupCount THEN backupCount ELSE Len(bks) + 1)
    ELSE bks

\* _pred_logger.info(ev): the files after the handler's emit.
emit(act, bks, ev) ==
    LET line == Format(ev)
    IN IF shouldRollover(act, line)
       THEN [active |-> <<line>>, backups |-> doRollover(act, bks), rolled |-> 1]
       ELSE [active |-> Append(act, line), backups |-> bks, rolled |-> 0]

\* =========================================================================
\* Report Aggregator (src/reports/make_report.py)
\* =========================================================================

\* line.split("INFO predict: ")[-1]: what follows the last marker, or the whole
\* line when it holds none.
SplitLast(line) ==
    LET ms == {i \in DOMAIN line : line[i].k = "marker"}
    IN IF ms = {} THEN line
       ELSE SubSeq(line, (CHOOSE i \in ms : \A j \in ms : j <= i) + 1, Len(line))

IsNum(tok) == tok.k \in {"int", "float"}
NumVal(tok) == IF tok.k = "int" THEN 1000 * tok.v ELSE tok.v

\* A decoded JSON value: a number (in thousandths), a string, or an object,
\* the function from its keys to their values.
NoObj == [k \in {} |-> 0]
JNum(v) == [t |-> "num", v |-> v, s |-> "", obj |-> NoObj]
JStr(str) == [t |-> "str", v |-> 0, s |-> str, obj |-> NoObj]
JObj(o) == [t |-> "obj", v |-> 0, s |-> "", obj |-> o]

Parsed(val, rest) == [ok |-> TRUE, val |-> val, rest |-> rest]
ParseFail == [ok |-> FALSE, val |-> JNum(0), rest |-> <<>>]

\* The JSON decoder on tokens: ParseValue reads one value off the front of
\* toks, ParseMembers the members of an object from a key on (a repeated key
\* keeps its last value).  A value is a number, a double-quoted string or an
\* object whose keys are double-quoted strings and whose values are values.  A
\* single-quoted string, the time stamp, the marker, filler and a bare word
\* (which stands for text other than true, false, null, NaN and Infinity) do
\* not start a value.
RECURSIVE ParseValue(_), ParseMembers(_, _)
ParseValue(toks) ==
    IF toks = <<>> THEN ParseFail
    ELSE IF IsNum(toks[1]) THEN Parsed(JNum(NumVal(toks[1])), Tail(toks))
    ELSE IF toks[1].k = "dq" THEN Parsed(JStr(toks[1].s), Tail(toks))
    ELSE IF toks[1] = LBrace
    THEN IF Len(toks) >= 2 /\ toks[2] = RBrace
         THEN Parsed(JObj(NoObj), SubSeq(toks, 3, Len(toks)))
         ELSE ParseMembers(Tail(toks), NoObj)
    ELSE ParseFail

ParseMembers(toks, acc) ==
    IF Len(toks) < 2 THEN ParseFail
    ELSE IF toks[1].k # "dq" \/ toks[2] # Colon THEN ParseFail
    ELSE LET val == ParseValue(SubSeq(toks, 3, Len(toks)))
             key == toks[1].s
             obj == [k \in DOMAIN acc \cup {key} |-> IF k = key THEN val.val ELSE acc[k]]
         IN IF ~val.ok THEN ParseFail
            ELSE IF val.rest = <<>> THEN ParseFail
            ELSE IF Head(val.rest) = RBrace THEN Parsed(JObj(obj), Tail(val.rest))
            ELSE IF Head(val.rest) = Comma THEN ParseMembers(Tail(val.rest), obj)
            ELSE ParseFail

JsonFail == [ok |-> FALSE, val |-> JNum(0)]

\* json.loads on the tokens of a text: the text must be one value and nothing
\* after it, or JSONDecodeError is raised.
json_loads(toks) ==
    LET r == ParseValue(toks)
    IN IF r.ok /\ r.rest = <<>> THEN [ok |-> TRUE, val |-> r.val] ELSE JsonFail

\* The loop of parse_lines: the decoded payload of every line that decodes.
RECURSIVE DecodedRows(_)
DecodedRows(lines) ==
    IF lines = <<>> THEN <<>>
    ELSE LET r == json_loads(SplitLast(Head(lines)))
         IN IF r.ok THEN <<r.val>> \o DecodedRows(Tail(lines)) ELSE DecodedRows(Tail(lines))

\* pd.DataFrame(rows): one row per element.  A list whose first element is a
\* dict makes the columns the keys of the dicts (a missing key is NaN in its
\* row) and raises AttributeError on an element that is no dict; a list whose
\* first element is a number or a string makes the one column 0.
DataFrame(rows) ==
    IF rows # <<>> /\ rows[1].t = "obj" /\ \E i \in DOMAIN rows : rows[i].t # "obj"
    THEN [exc |-> "AttributeError", nrows |-> 0, columns |-> {}, rows |-> <<>>]
    ELSE IF \E i \in DOMAIN rows : rows[i].t # "obj"
    THEN [exc |-> "none", nrows |-> Len(rows), columns |-> {"0"}, rows |-> rows]
    ELSE [exc |-> "none", nrows |-> Len(rows),
          columns |-> UNION {DOMAIN rows[i].obj : i \in DOMAIN rows}, rows |-> rows]

\* parse_lines(): the frame, and how many lines were read.
parse_lines(exists, lines) ==
    IF ~exists
    THEN [df |-> [exc |-> "none", nrows |-> 0, columns |-> {"n", "latency_ms"}, rows |-> <<>>],
          scanned |-> 0]
    ELSE [df |-> DataFrame(DecodedRows(lines)), scanned |-> Len(lines)]

\* The values of column c that are not NaN, in row order.
RECURSIVE Column(_, _)
Column(rows, c) ==
    IF rows = <<>> THEN <<>>
    ELSE (IF rows[1].t = "obj" /\ c \in DOMAIN rows[1].obj THEN <<rows[1].obj[c]>> ELSE <<>>)
         \o Column(Tail(rows), c)

\* Whether Series.mean() can add the column up: a string or a dict among its
\* values raises TypeError.
Numeric(col) == \A i \in DOMAIN col : col[i].t = "num"

\* The numbers of a numeric column.
Numbers(col) == [i \in DOMAIN col |-> col[i].v]

RECURSIVE Sum(_)
Sum(s) == IF s = <<>> THEN 0 ELSE Head(s) + Sum(Tail(s))

\* 20 * Series.quantile(0.95), linear interpolation between order statistics.
Quantile95x20(s) ==
    LET m == Len(s)
        lo == (19 * (m - 1)) \div 20
        r == (19 * (m - 1)) % 20
    IN IF r = 0 THEN 20 * KthSmallest(s, lo + 1)
       ELSE 20 * KthSmallest(s, lo + 1)
            + r * (KthSmallest(s, lo + 2) - KthSmallest(s, lo + 1))

NoSummary ==
    [total_requests |-> 0, n_sum |-> 0, n_cnt |-> 0, lat_sum |-> 0, lat_cnt |-> 0, p95x20 |-> 0]

\* The summary of main(): avg_batch_size is n_sum / n_cnt thousandths,
\* avg_latency_ms is lat_sum / lat_cnt thousandths, p95_latency_ms is
\* p95x20 / 20 thousandths.
Summary(df) ==
    LET ns == Numbers(Column(df.rows, "n"))
        ls == Numbers(Column(df.rows, "latency_ms"))
    IN [total_requests |-> df.nrows, n_sum |-> Sum(ns), n_cnt |-> Len(ns),
        lat_sum |-> Sum(ls), lat_cnt |-> Len(ls), p95x20 |-> Quantile95x20(ls)]

\* main(): "nodata" is the message and the early return; "error" is an
\* exception that ends the run; "summary" is the record written to summary.csv.
\* The entries of the summary are computed in their order: df["n"] raises
\* KeyError without the column and its mean() TypeError on a value that is no
\* number, then the same for df["latency_ms"].
main(exists, lines) ==
    LET pl == parse_lines(exists, lines)
        df == pl.df
        Error(exc) == [kind |-> "error", exc |-> exc, summary |-> NoSummary, scanned |-> pl.scanned]
    IN IF df.exc # "none" THEN Error(df.exc)
       ELSE IF df.nrows = 0 \/ df.columns = {}
       THEN [kind |-> "nodata", exc |-> "none", summary |-> NoSummary, scanned |-> pl.scanned]
       ELSE IF "n" \notin df.columns THEN Error("KeyError")
       ELSE IF ~Numeric(Column(df.rows, "n")) THEN Error("TypeError")
       ELSE IF "latency_ms" \notin df.columns THEN Error("KeyError")
       ELSE IF ~Numeric(Column(df.rows, "latency_ms")) THEN Error("TypeError")
       ELSE [kind |-> "summary", exc |-> "none", summary |-> Summary(df), scanned |-> pl.scanned]

NoReport == [kind |-> "none", exc |-> "none", summary |-> NoSummary, scanned |-> 0]

\* One run of reports/make_report.py.
RunReport ==
    /\ report' = main(logExists, active)
    /\ summaryFile' = IF report'.kind = "summary"
                      THEN [present |-> TRUE, summary |-> report'.summary]
                      ELSE summaryFile
    /\ UNCHANGED <<normVars, serviceVars, logVars>>

\* =========================================================================
\* Model Executor (src/app/inference.py)
\* =========================================================================

\* What MODEL_PATH holds: nothing, bytes that are no artifact, a pipeline fit
\* on N_FEATURES columns, or the pipeline model/train_pipeline.py fits (on the
\* 30 columns of the data set).
Artifacts == {"missing", "corrupt", "fitN", "fit30"}

\* joblib.load(MODEL_PATH): the outcomes it can have on what the path holds.  A
\* missing file raises FileNotFoundError; bytes that are no artifact raise what
\* the unpickler meets first, a ValueError (an unsupported protocol byte) or
\* another exception (UnpicklingError, EOFError).
LoadOutcomes(a) ==
    CASE a = "missing" -> {[ok |-> FALSE, exc |-> "FileNotFoundError", inst |-> "None"]}
      [] a = "corrupt" -> {[ok |-> FALSE, exc |-> "ValueError", inst |-> "None"],
                           [ok |-> FALSE, exc |-> "UnpicklingError", inst |-> "None"]}
      [] OTHER -> {[ok |-> TRUE, exc |-> "none", inst |-> a]}

\* load_model without its test of the cache: every call calls joblib.load.
load_model_reloading(m, o) ==
    IF o.ok
    THEN [model |-> o.inst, exc |-> "none", tried |-> TRUE, loaded |-> 1]
    ELSE [model |-> m, exc |-> o.exc, tried |-> TRUE, loaded |-> 0]

\* load_model() on the cache m, o being what joblib.load does if it is called.
load_model(m, o) ==
    IF m = "None"
    THEN IF o.ok
         THEN [model |-> o.inst, exc |-> "none", tried |-> TRUE, loaded |-> 1]
         ELSE [model |-> m, exc |-> o.exc, tried |-> TRUE, loaded |-> 0]
    ELSE [model |-> m, exc |-> "none", tried |-> FALSE, loaded |-> 0]

\* The columns the pipeline was fit on.
FeaturesIn(m) == IF m = "fit30" THEN TrainedFeatures ELSE N_FEATURES

\* model.predict(X): the pipeline raises ValueError on a matrix of another
\* width than it was fit on, and on a matrix of no rows.
ModelPredict(m, X) ==
    IF X.ncols # FeaturesIn(m) \/ X.nrows = 0 THEN "ValueError" ELSE "none"

\* The body predict_from_json and predict_from_csv share: the cache m, the
\* outcome o of joblib.load if called, the outcome X of the normalizer (called
\* after load_model), the latency measured.
RunPrediction(m, o, X, lat) ==
    LET lm == load_model(m, o)
        base == [model |-> lm.model, tried |-> lm.tried, loaded |-> lm.loaded,
                 stage |-> "load", exc |-> lm.exc, logged |-> FALSE, n |-> 0, lat |-> 0]
    IN IF lm.exc # "none" THEN base
       ELSE IF ~X.ok THEN [base EXCEPT !.stage = "normalize", !.exc = X.exc]
       ELSE IF ModelPredict(lm.model, X) # "none"
       THEN [base EXCEPT !.stage = "predict", !.exc = ModelPredict(lm.model, X)]
       ELSE [base EXCEPT !.stage = "done", !.logged = TRUE, !.n = X.nrows, !.lat = lat]

predict_from_json(m, o, payload, lat) == RunPrediction(m, o, from_json_payload(payload), lat)

predict_from_csv(m, o, file, lat) == RunPrediction(m, o, from_csv_bytes(file), lat)

\* =========================================================================
\* Request boundary (src/app/main.py, src/app/schemas.py)
\* =========================================================================

\* PredictJSON(**body): data must be a list of numbers or a list of lists of
\* numbers.
ValidPredictJSON(payload) ==
    /\ payload.t \in {"flat", "nested"}
    /\ \A r \in DOMAIN payload.rows : \A c \in DOMAIN payload.rows[r] :
          payload.rows[r][c].k = "num"

\* The except clauses of predict(): an HTTPException passes, a ValueError is
\* 400, anything else is 500.
StatusOf(exc) ==
    CASE exc = "none" -> 200
      [] exc = "HTTP400" -> 400
      [] exc = "HTTP415" -> 415
      [] exc = "ValueError" -> 400
      [] OTHER -> 500

\* What the input of a request is to the normalizer: of the wrong width,
\* empty (no rows, no bytes, no list), or neither.
InputFault(out) ==
    IF ~out.ok /\ out.msg = "shape" THEN "shape"
    ELSE IF (~out.ok /\ out.msg \in {"empty", "emptydata"}) \/ (out.ok /\ out.nrows = 0)
    THEN "empty"
    ELSE "none"

\* A step of predict() that ends before predict_from_json / predict_from_csv.
Early(stage, exc) ==
    [model |-> model, tried |-> FALSE, loaded |-> 0, stage |-> stage, exc |-> exc,
     logged |-> FALSE, n |-> 0, lat |-> 0]

NoResp ==
    [status |-> 0, ctype |-> "none", stage |-> "none", exc |-> "none",
     cached |-> FALSE, tried |-> FALSE, fault |-> "none", n |-> 0]

\* The state after a request that went through r got its response.
Answer(ctype, r, fault) ==
    /\ model' = r.model
    /\ nLoads' = nLoads + r.loaded
    /\ loadFailed' = (loadFailed \/ (r.tried /\ r.loaded = 0))
    /\ nReq' = nReq + 1
    /\ resp' = [status |-> StatusOf(r.exc), ctype |-> ctype, stage |-> r.stage,
                exc |-> r.exc, cached |-> model # "None", tried |-> r.tried,
                fault |-> fault, n |-> r.n]
    /\ IF r.logged
       THEN LET e == emit(active, backups, [n |-> r.n, lat |-> r.lat])
            IN /\ active' = e.active
               /\ backups' = e.backups
               /\ rotations' = rotations + e.rolled
               /\ events' = Append(events, [n |-> r.n, lat |-> r.lat])
       ELSE UNCHANGED <<active, backups, rotations, events>>
    /\ UNCHANGED <<norm, artifact, logExists, report, summaryFile>>

Inflight == Cardinality({s \in DOMAIN slots : slots[s] # "idle"})

\* The request bodies and files the service is sent.
UndecodableBody == [t |-> "undecodable", data |-> NonList]
NotMappingBody == [t |-> "notmapping", data |-> NonList]
Mapping(payload) == [t |-> "mapping", data |-> payload]

ServiceBodies ==
    {UndecodableBody, NotMappingBody,
     Mapping(Flat(BaseRow(N_FEATURES, 1))),
     Mapping(Nested(BaseTable(MaxRows, N_FEATURES))),
     Mapping(Flat(BaseRow(N_FEATURES + 1, 1))),
     Mapping(Flat(<<>>)),
     Mapping(Flat([BaseRow(N_FEATURES, 1) EXCEPT ![1] = TextCell]))}

ServiceFiles ==
    {Csv(<<Header(N_FEATURES)>> \o BaseTable(1, N_FEATURES)),
     Csv(<<Header(N_FEATURES)>>),
     Csv(<<Header(N_FEATURES - 1)>> \o BaseTable(1, N_FEATURES - 1)),
     Csv(<<>>)}

\* The latencies measured, in thousandths of a millisecond.
Latencies == {500, 12250}

\* predict(): a Content-Type that is neither JSON nor multipart is refused
\* before anything is awaited.
RejectContentType ==
    /\ nReq + Inflight < MaxRequests
    /\ Answer("other", Early("ctype", "HTTP415"), "none")
    /\ UNCHANGED slots

\* predict(): multipart without the `file` field.
RejectNoFile ==
    /\ nReq + Inflight < MaxRequests
    /\ Answer("multipart", Early("file", "HTTP400"), "none")
    /\ UNCHANGED slots

\* predict() up to `await request.json()` or `await file.read()`: the request
\* is suspended, and other requests run.
Await(s, ctype) ==
    /\ nReq + Inflight < MaxRequests
    /\ slots[s] = "idle"
    /\ slots' = [slots EXCEPT ![s] = ctype]
    /\ UNCHANGED <<normVars, artifact, model, nLoads, loadFailed, nReq, resp,
                   logVars, reportVars>>

\* predict() from `await request.json()` to its response, in one piece: the
\* handler awaits nothing after the body.
HandleJson(s, body, lat, o) ==
    /\ slots[s] = "json"
    /\ slots' = [slots EXCEPT ![s] = "idle"]
    /\ IF body.t = "undecodable"
       THEN Answer("json", Early("body", "ValueError"), "none")
       ELSE IF body.t = "notmapping"
       THEN Answer("json", Early("schema", "TypeError"), "none")
       ELSE IF ~ValidPredictJSON(body.data)
       THEN Answer("json", Early("schema", "HTTP400"), "none")
       ELSE Answer("json", predict_from_json(model, o, body.data, lat),
                   InputFault(from_json_payload(body.data)))

\* predict() from `await file.read()` to its response.
HandleCsv(s, file, lat, o) ==
    /\ slots[s] = "multipart"
    /\ slots' = [slots EXCEPT ![s] = "idle"]
    /\ Answer("multipart", predict_from_csv(model, o, file, lat),
              InputFault(from_csv_bytes(file)))

\* The file at MODEL_PATH is written, replaced or removed (the training job,
\* an operator).
Deploy(a) ==
    /\ a # artifact
    /\ artifact' = a
    /\ UNCHANGED <<normVars, model, nLoads, loadFailed, slots, nReq, resp,
                   logVars, reportVars>>

\* =========================================================================
\* Specifications
\* =========================================================================

NoSummaryFile == [present |-> FALSE, summary |-> NoSummary]

\* A line of text that is no event, of b characters with its newline.
FillerLine(b) == <<Filler(b - 1)>>

\* The log files the process finds when it starts: none but the empty active
\* file the handler opens, or files a former run left, the active one short of
\* maxBytes by less than two events.
InitLogs ==
    {[active |-> <<>>, backups |-> <<>>],
     [active |-> <<FillerLine(maxBytes - 100)>>, backups |-> <<>>],
     [active |-> <<FillerLine(maxBytes - 100)>>,
      backups |-> <<<<FillerLine(maxBytes - 1)>>, <<FillerLine(maxBytes - 2)>>,
                    <<FillerLine(maxBytes - 3)>>>>]}

ServiceIdle ==
    /\ model = "None"
    /\ nLoads = 0
    /\ loadFailed = FALSE
    /\ slots = [s \in 1..MaxInflight |-> "idle"]
    /\ nReq = 0
    /\ resp = NoResp

\* The service process after its imports.
Init ==
    /\ norm = NoCall
    /\ artifact \in Artifacts
    /\ ServiceIdle
    /\ logExists = TRUE
    /\ \E l \in InitLogs : active = l.active /\ backups = l.backups
    /\ events = <<>>
    /\ rotations = 0
    /\ report = NoReport
    /\ summaryFile = NoSummaryFile

Next ==
    \/ RejectContentType
    \/ RejectNoFile
    \/ \E s \in 1..MaxInflight : \E c \in {"json", "multipart"} : Await(s, c)
    \/ \E s \in 1..MaxInflight : \E b \in ServiceBodies : \E lat \in Latencies :
         \E o \in LoadOutcomes(artifact) : HandleJson(s, b, lat, o)
    \/ \E s \in 1..MaxInflight : \E f \in ServiceFiles : \E lat \in Latencies :
         \E o \in LoadOutcomes(artifact) : HandleCsv(s, f, lat, o)
    \/ \E a \in Artifacts : Deploy(a)

Spec == Init /\ [][Next]_vars

\* The service with an artifact fit on N_FEATURES columns in place, and the
\* aggregator run beside it at any moment.
InitLog ==
    /\ Init
    /\ artifact = "fitN"

NextLog ==
    \/ RejectContentType
    \/ RejectNoFile
    \/ \E s \in 1..MaxInflight : \E c \in {"json", "multipart"} : Await(s, c)
    \/ \E s \in 1..MaxInflight : \E b \in ServiceBodies : \E lat \in Latencies :
         \E o \in LoadOutcomes(artifact) : HandleJson(s, b, lat, o)
    \/ \E s \in 1..MaxInflight : \E f \in ServiceFiles : \E lat \in Latencies :
         \E o \in LoadOutcomes(artifact) : HandleCsv(s, f, lat, o)
    \/ RunReport

SpecLog == InitLog /\ [][NextLog]_vars

\* The normalizer alone, called on every input of the model.
InitNorm ==
    /\ norm = NoCall
    /\ artifact = "fitN"
    /\ ServiceIdle
    /\ logExists = TRUE
    /\ active = <<>>
    /\ backups = <<>>
    /\ events = <<>>
    /\ rotations = 0
    /\ report = NoReport
    /\ summaryFile = NoSummaryFile

NextNorm ==
    \/ \E p \in JsonPayloads : NormalizeJson(p)
    \/ \E f \in CsvFiles : NormalizeCsv(f)

SpecNorm == InitNorm /\ [][NextNorm]_vars

\* The aggregator alone, run on every log of the model.
JsonEvent(n, lat) ==
    <<AscTime, Marker, LBrace, DQ("n"), Colon, IntTok(n), Comma,
      DQ("latency_ms"), Colon, FloatTok(lat), RBrace>>

AggLines ==
    {JsonEvent(1, 10000), JsonEvent(2, 20000), JsonEvent(3, 30000),
     Format([n |-> 1, lat |-> 500]),
     <<AscTime, Marker, Word("started")>>,
     <<AscTime, Marker, LBrace, DQ("n"), Colon>>,
     <<AscTime, Marker, LBrace, DQ("foo"), Colon, IntTok(1), RBrace>>,
     <<AscTime, Marker, LBrace, DQ("n"), Colon, IntTok(4), RBrace>>,
     <<AscTime, Marker, LBrace, RBrace>>,
     <<AscTime, Marker, DQ("n")>>,
     <<AscTime, Marker, LBrace, DQ("n"), Colon, DQ("latency_ms"), RBrace>>,
     <<IntTok(7)>>}

InitAgg ==
    /\ norm = NoCall
    /\ artifact = "fitN"
    /\ ServiceIdle
    /\ logExists \in BOOLEAN
    /\ active \in UNION {[1..k -> AggLines] : k \in 0..MaxLogLines}
    /\ (~logExists => active = <<>>)
    /\ backups = <<>>
    /\ events = <<>>
    /\ rotations = 0
    /\ report = NoReport
    /\ summaryFile = NoSummaryFile

NextAgg == RunReport

SpecAgg == InitAgg /\ [][NextAgg]_vars

\* =========================================================================
\* Claims
\* =========================================================================

\* The input of the last normalizer call as a table: its rows, its width (the
\* length of a flat list, of the rows of a list of lists, of a CSV header) and
\* its cells (a field a CSV row lacks is an empty one).  The lines of a CSV
\* table are not blank and none holds more fields than the header names.
IsTable(inp) ==
    \/ inp.t = "flat" /\ Len(inp.rows[1]) > 0
    \/ inp.t = "nested" /\ inp.rows # <<>>
         /\ \A r \in DOMAIN inp.rows : Len(inp.rows[r]) = Len(inp.rows[1])
    \/ inp.t = "csv" /\ inp.rows # <<>>
         /\ \A r \in DOMAIN inp.rows :
               Len(inp.rows[r]) >= 1 /\ Len(inp.rows[r]) <= Len(inp.rows[1])
InputWidth(inp) == Len(inp.rows[1])
InputRows(inp) == IF inp.t = "csv" THEN Len(inp.rows) - 1 ELSE Len(inp.rows)
InputCell(inp, r, c) ==
    IF inp.t # "csv" THEN inp.rows[r][c]
    ELSE IF c <= Len(inp.rows[r + 1]) THEN inp.rows[r + 1][c]
    ELSE NoneCell

\* An input that is missing or has no rows.
ZeroRows(inp) ==
    \/ inp.t = "nonlist"
    \/ inp.t = "flat" /\ Len(inp.rows[1]) = 0
    \/ inp.t = "nested" /\ inp.rows = <<>>
    \/ inp.t = "csv" /\ Len(SelectSeq(inp.rows, NonBlank)) <= 1

\* The columns of an input: the length of a flat list, of the rows of a list of
\* lists with rows of one length, and for a CSV file the fields of its longest
\* line (a shorter line lacks fields at its end).
HasColumns(inp) ==
    \/ inp.t = "flat" /\ Len(inp.rows[1]) > 0
    \/ inp.t = "nested" /\ inp.rows # <<>>
         /\ \A r \in DOMAIN inp.rows : Len(inp.rows[r]) = Len(inp.rows[1])
    \/ inp.t = "csv" /\ inp.rows # <<>>
ColumnCount(inp) ==
    CHOOSE w \in {Len(inp.rows[r]) : r \in DOMAIN inp.rows} :
        \A r \in DOMAIN inp.rows : Len(inp.rows[r]) <= w

\* C1: in both entry modes, an input whose column count differs from
\* N_FEATURES makes the normalizer fail with the validation error (ValueError)
\* and return no matrix: nothing is truncated or padded to N_FEATURES columns.
C1_ShapeMismatchRaises ==
    (norm.called /\ HasColumns(norm.input) /\ ColumnCount(norm.input) # N_FEATURES)
    => /\ ~norm.out.ok
       /\ norm.out.exc = "ValueError"
       /\ norm.out.X = <<>>

\* C2: the artifact is loaded at most once in a process, whatever the requests
\* and their interleaving at the awaits: a cached instance stems from the one
\* load, a request that found the cache set did not call joblib.load, and a
\* request that got past load_model either made the one load or found the
\* cache set.  (A call whose joblib.load raises loads nothing: that is C9.)
C2_LoadedOnce ==
    /\ nLoads <= 1
    /\ (model # "None" <=> nLoads = 1)
    /\ (resp.cached => ~resp.tried)
    /\ resp.stage \in {"normalize", "predict", "done"}
         => /\ nLoads = 1
            /\ (resp.tried <=> ~resp.cached)

\* C2 witness: a multipart request was served from the cache after another
\* artifact had been put at MODEL_PATH, with a request still suspended.
C2_Witness ==
    /\ nLoads = 1
    /\ model = "fitN"
    /\ artifact = "fit30"
    /\ resp.ctype = "multipart"
    /\ resp.cached
    /\ resp.status = 200
    /\ nReq >= 2
    /\ Inflight >= 1

\* The record of the i-th event as the aggregator should decode it.
EventRow(ev) == [n |-> 1000 * ev.n, latency_ms |-> ev.lat]

\* C3: without a rotation, parse_lines decodes one record per recorded event,
\* in order, each with the n and the latency_ms of its event.
C3_EveryEventParses ==
    rotations = 0
    => LET rows == DecodedRows(active)
       IN /\ Len(rows) = Len(events)
          /\ \A i \in DOMAIN rows :
                /\ rows[i].t = "obj"
                /\ DOMAIN rows[i].obj = {"n", "latency_ms"}
                /\ rows[i].obj["n"] = JNum(EventRow(events[i]).n)
                /\ rows[i].obj["latency_ms"] = JNum(EventRow(events[i]).latency_ms)

\* A decoded payload that is a valid event: an object with an integer n >= 1
\* and a latency_ms >= 0.
ValidEvent(r) ==
    /\ r.t = "obj"
    /\ {"n", "latency_ms"} \subseteq DOMAIN r.obj
    /\ r.obj["n"].t = "num"
    /\ r.obj["n"].v >= 1000
    /\ r.obj["n"].v % 1000 = 0
    /\ r.obj["latency_ms"].t = "num"
    /\ r.obj["latency_ms"].v >= 0

ValidRows(lines) == SelectSeq(DecodedRows(lines), ValidEvent)

\* C4: on a log of valid events mixed with other lines the run ends without an
\* error, and its summary is that of the valid events alone.
C4_SummaryOverValidEvents ==
    (report.kind # "none" /\ ValidRows(active) # <<>>)
    => /\ report.kind = "summary"
       /\ report.summary = Summary(DataFrame(ValidRows(active)))

\* C5: with the log absent, empty or holding no valid event, the run ends with
\* "no data": no error, and no summary written.
C5_NoDataWithoutValidEvent ==
    (report.kind # "none" /\ (~logExists \/ ValidRows(active) = <<>>))
    => /\ report.kind = "nodata"
       /\ ~summaryFile.present

\* C6: an input that is missing or has no rows makes the normalizer fail with
\* the validation error, so no matrix of zero rows is ever returned.
C6_EmptyInputRejected ==
    norm.called
    => /\ ZeroRows(norm.input) => ~norm.out.ok /\ norm.out.exc = "ValueError"
       /\ norm.out.ok => norm.out.nrows >= 1

\* The column c of the input, coerced.
CoercedColumn(inp, c) == [r \in 1..InputRows(inp) |-> to_numeric(InputCell(inp, r, c))]

\* C7: on a table of N_FEATURES columns the normalizer does not fail; a cell
\* that is no number becomes the median of its column, the others keep their
\* values.
C7_NonNumericCellImputed ==
    (norm.called /\ IsTable(norm.input) /\ InputRows(norm.input) >= 1
        /\ InputWidth(norm.input) = N_FEATURES)
    => /\ norm.out.ok
       /\ \A r \in 1..InputRows(norm.input) : \A c \in 1..N_FEATURES :
             norm.out.X[r][c] =
                IF InputCell(norm.input, r, c).k = "num"
                THEN F(2 * InputCell(norm.input, r, c).v)
                ELSE Median(CoercedColumn(norm.input, c))

\* C8: the status of a response follows from the kind of failure alone: an
\* input of the wrong width or empty is 400, an unsupported Content-Type is
\* 415, an exception of the artifact load or of model.predict is 500.
C8_StatusByFailureKind ==
    resp.status # 0
    => /\ resp.fault \in {"shape", "empty"} => resp.status = 400
       /\ resp.ctype = "other" => resp.status = 415
       /\ (resp.stage \in {"load", "predict"} /\ resp.exc # "none") => resp.status = 500

\* C9: a failure to load the artifact is fatal: once a load has failed, the
\* process serves no further prediction request.
C9_LoadFailureIsFatal == loadFailed => resp.status # 200

RECURSIVE TotalLines(_)
TotalLines(segments) ==
    IF segments = <<>> THEN 0 ELSE Len(Head(segments)) + TotalLines(Tail(segments))

\* C10: once the process has rotated its log, a run of the aggregator reads
\* the lines of every segment that exists, the active one and the backups.
C10_ReportReadsEverySegment ==
    [][(rotations >= 1 /\ report' # report)
        => report'.scanned = Len(active') + TotalLines(backups')]_vars

====
